---- MODULE Spec2Model ----
(***************************************************************************)
(* Model of the plugin <-> gateway IPC layer of gateway-addon-node:        *)
(*   IpcSocket    (src/unnamed/part_002)  the channel                      *)
(*   Deferred     (src/src/deferred.ts)   the pending-registration future  *)
(*   PluginClient (src/src/property.ts, lines 469-573)  the handshake      *)
(* Every action is one call of a method (or one inbound frame handled by   *)
(* IpcSocket.onData, with the callback it invokes).  The variable `last`   *)
(* records the call just made: its arguments, whether it threw, and the    *)
(* ordered list of the observable operations it performed.                 *)
(***************************************************************************)
EXTENDS Integers, Sequences, FiniteSets, TLC

(***************************************************************************)
(* Bounds of the model.                                                    *)
(***************************************************************************)
MaxSockets == 3      \* IpcSocket objects constructed in one run
MaxUserDeferreds == 1 \* Deferred objects constructed outside the client
MaxSent == 1         \* messages handed to one socket's transport
MaxChannels == 2     \* IpcSocket constructions by code other than the client
MaxValue == 2        \* the largest number a property is set to
MaxNotifications == 2  \* notifications handed to one session socket
MaxActions == 1      \* Action objects made
MaxConnections == 2  \* sqlite connections made by Database.open()

(***************************************************************************)
(* Values.                                                                 *)
(***************************************************************************)
Null == 0                       \* null / undefined object reference
OtherHandler == -1              \* an onMsg callback that is not the client's
Undefined == "undefined"        \* an absent field, and how a template prints it
Protocols == {"ipc", "inproc", "tcp"}
PluginIds == {"acme", "zigbee"}
AppInstance == "app"
ManagerBaseAddr == "gateway.addonManager"
PLUGIN_REGISTER_REQUEST == "PLUGIN_REGISTER_REQUEST"
PLUGIN_REGISTER_RESPONSE == "PLUGIN_REGISTER_RESPONSE"
PROPERTY_CHANGED == "PROPERTY_CHANGED"
UNLOAD == "UNLOAD"
ACTION_STATUS == "ACTION_STATUS"

VARIABLES
  ipcProtocol,       \* PluginClient.ipcProtocol
  pluginId,          \* PluginClient.pluginId
  sockets,           \* the IpcSocket objects, in construction order
  socketId,          \* module counter socketId of the channel module
  boundAddrs,        \* module set boundAddrs
  connectedAddrs,    \* module set connectedAddrs
  deferreds,         \* the Deferred objects, in construction order
  deferredReply,     \* PluginClient.deferredReply (index into deferreds, or Null)
  gatewayVersion,    \* PluginClient.gatewayVersion
  userProfile,       \* PluginClient.userProfile
  addonManager,      \* PluginClient.addonManager (number of the proxy, or Null)
  pluginIpcBaseAddr, \* PluginClient.pluginIpcBaseAddr
  pluginIpcSocket,   \* PluginClient.pluginIpcSocket (index into sockets, or Null)
  managerIpcSocket,  \* PluginClient.managerIpcSocket (index into sockets, or Null)
  unexpectedLogged,  \* Deferreds for which 'Unexpected registration reply' was logged
  files,             \* the paths that exist in the filesystem
  device,            \* a Device of the add-on: its id, properties and actions
  adapter,           \* the Adapter of the add-on: its id and its devices
  createdActions,    \* the Action objects, in construction order
  database,          \* the Database wrapper: packageName, path and conn
  connections,       \* the sqlite connections open() made, in construction order
  last               \* the call just made

vars == <<ipcProtocol, pluginId, sockets, socketId, boundAddrs, connectedAddrs,
          deferreds, deferredReply, gatewayVersion, userProfile, addonManager,
          pluginIpcBaseAddr, pluginIpcSocket, managerIpcSocket,
          unexpectedLogged, files, device, adapter, createdActions, database,
          connections, last>>

(***************************************************************************)
(* JSON documents.  A parsed document is a record; a field that is absent  *)
(* holds Undefined.  kind is "null" for the JSON value null and "object"   *)
(* for an object; data.kind is "undefined" when the data member is absent. *)
(***************************************************************************)
NoData == [kind |-> "undefined", pluginId |-> Undefined, gatewayVersion |-> Undefined,
           userProfile |-> Undefined, ipcBaseAddr |-> Undefined]

EmptyData == [NoData EXCEPT !.kind = "object"]

JsonNull == [kind |-> "null", messageType |-> Undefined, data |-> NoData]

Msg(messageType, data) == [kind |-> "object", messageType |-> messageType, data |-> data]

ResponseData(version, profile, addr) ==
  [EmptyData EXCEPT !.gatewayVersion = version, !.userProfile = profile,
                    !.ipcBaseAddr = addr]

\* The frames a peer is taken to send: texts, as they arrive in the buffer.
TxtNotJson == "{not json"
TxtNull == "null"
TxtResponseA == "{\"messageType\":\"PLUGIN_REGISTER_RESPONSE\",\"data\":{\"gatewayVersion\":\"1.0\",\"userProfile\":{},\"ipcBaseAddr\":\"acme.session\"}}"
TxtResponseB == "{\"messageType\":\"PLUGIN_REGISTER_RESPONSE\",\"data\":{\"gatewayVersion\":\"2.0\",\"userProfile\":{},\"ipcBaseAddr\":\"other.session\"}}"
TxtResponseNoData == "{\"messageType\":\"PLUGIN_REGISTER_RESPONSE\"}"
TxtUnload == "{\"messageType\":\"UNLOAD\",\"data\":{}}"
TxtNoType == "{\"data\":{}}"
TxtRequestAcme == "{\"messageType\":\"PLUGIN_REGISTER_REQUEST\",\"data\":{\"pluginId\":\"acme\"}}"
TxtRequestZigbee == "{\"messageType\":\"PLUGIN_REGISTER_REQUEST\",\"data\":{\"pluginId\":\"zigbee\"}}"
TxtRequestNoId == "{\"messageType\":\"PLUGIN_REGISTER_REQUEST\",\"data\":{}}"
TxtChangedAcme == "{\"messageType\":\"PROPERTY_CHANGED\",\"data\":{\"pluginId\":\"acme\"}}"
TxtChangedZigbee == "{\"messageType\":\"PROPERTY_CHANGED\",\"data\":{\"pluginId\":\"zigbee\"}}"
TxtStatusAcme == "{\"messageType\":\"ACTION_STATUS\",\"data\":{\"pluginId\":\"acme\"}}"
TxtStatusZigbee == "{\"messageType\":\"ACTION_STATUS\",\"data\":{\"pluginId\":\"zigbee\"}}"

MalformedFrames == {TxtNotJson}
InvalidFrames == {TxtNull, TxtResponseNoData, TxtNoType}
ValidFrames == {TxtResponseA, TxtResponseB, TxtUnload}
Frames == MalformedFrames \cup InvalidFrames \cup ValidFrames

(***************************************************************************)
(* JSON.parse: the texts that are JSON documents, the value of each, and   *)
(* the outcome of the call (ok is FALSE where it throws SyntaxError).      *)
(***************************************************************************)
JsonTexts == {TxtNull, TxtResponseA, TxtResponseB, TxtResponseNoData, TxtUnload,
              TxtNoType, TxtRequestAcme, TxtRequestZigbee, TxtRequestNoId,
              TxtChangedAcme, TxtChangedZigbee, TxtStatusAcme, TxtStatusZigbee}

JSONValue(text) ==
  CASE text = TxtNull -> JsonNull
    [] text = TxtResponseA -> Msg(PLUGIN_REGISTER_RESPONSE,
                     ResponseData("1.0", "{}", "acme.session"))
    [] text = TxtResponseB -> Msg(PLUGIN_REGISTER_RESPONSE,
                     ResponseData("2.0", "{}", "other.session"))
    [] text = TxtResponseNoData -> Msg(PLUGIN_REGISTER_RESPONSE, NoData)
    [] text = TxtUnload -> Msg(UNLOAD, EmptyData)
    [] text = TxtNoType -> Msg(Undefined, EmptyData)
    [] text = TxtRequestAcme -> Msg(PLUGIN_REGISTER_REQUEST,
                     [EmptyData EXCEPT !.pluginId = "acme"])
    [] text = TxtRequestZigbee -> Msg(PLUGIN_REGISTER_REQUEST,
                     [EmptyData EXCEPT !.pluginId = "zigbee"])
    [] text = TxtRequestNoId -> Msg(PLUGIN_REGISTER_REQUEST, EmptyData)
    [] text = TxtChangedAcme -> Msg(PROPERTY_CHANGED,
                     [EmptyData EXCEPT !.pluginId = "acme"])
    [] text = TxtChangedZigbee -> Msg(PROPERTY_CHANGED,
                     [EmptyData EXCEPT !.pluginId = "zigbee"])
    [] text = TxtStatusAcme -> Msg(ACTION_STATUS,
                     [EmptyData EXCEPT !.pluginId = "acme"])
    [] text = TxtStatusZigbee -> Msg(ACTION_STATUS,
                     [EmptyData EXCEPT !.pluginId = "zigbee"])
    [] OTHER -> JsonNull

\* JSON.parse that returns a value instead of throwing on text that is not JSON.
JSONParse_NoThrow(text) == [ok |-> TRUE, value |-> JSONValue(text)]

JSONParse(text) == [ok |-> text \in JsonTexts, value |-> JSONValue(text)]

(***************************************************************************)
(* JSON.stringify on the messages the client builds.                       *)
(***************************************************************************)
\* JSON.stringify that writes data out as {} whatever its members.
JSONStringify_EmptyData(obj) ==
  IF obj.kind = "object" /\ obj.messageType = PLUGIN_REGISTER_REQUEST THEN TxtRequestNoId
  ELSE IF obj.kind = "object" /\ obj.messageType = UNLOAD THEN TxtUnload
  ELSE TxtNull

JSONStringify(obj) ==
  CASE obj = Msg(PLUGIN_REGISTER_REQUEST, [EmptyData EXCEPT !.pluginId = "acme"]) ->
         TxtRequestAcme
    [] obj = Msg(PLUGIN_REGISTER_REQUEST, [EmptyData EXCEPT !.pluginId = "zigbee"]) ->
         TxtRequestZigbee
    [] obj = Msg(PLUGIN_REGISTER_REQUEST, EmptyData) -> TxtRequestNoId
    [] obj = Msg(PROPERTY_CHANGED, [EmptyData EXCEPT !.pluginId = "acme"]) ->
         TxtChangedAcme
    [] obj = Msg(PROPERTY_CHANGED, [EmptyData EXCEPT !.pluginId = "zigbee"]) ->
         TxtChangedZigbee
    [] obj = Msg(ACTION_STATUS, [EmptyData EXCEPT !.pluginId = "acme"]) ->
         TxtStatusAcme
    [] obj = Msg(ACTION_STATUS, [EmptyData EXCEPT !.pluginId = "zigbee"]) ->
         TxtStatusZigbee
    [] obj = Msg(UNLOAD, EmptyData) -> TxtUnload
    [] obj = Msg(PLUGIN_REGISTER_RESPONSE, ResponseData("1.0", "{}", "acme.session")) ->
         TxtResponseA
    [] obj = Msg(PLUGIN_REGISTER_RESPONSE, ResponseData("2.0", "{}", "other.session")) ->
         TxtResponseB
    [] OTHER -> TxtNull

(***************************************************************************)
(* The schema validator applied to { message: data }: the envelope needs a *)
(* string messageType and a data object; a registration response needs its *)
(* three members and a registration request its pluginId.                  *)
(***************************************************************************)
Validate(data) ==
  /\ data.kind = "object"
  /\ data.messageType # Undefined
  /\ data.data.kind = "object"
  /\ data.messageType = PLUGIN_REGISTER_RESPONSE =>
       /\ data.data.gatewayVersion # Undefined
       /\ data.data.userProfile # Undefined
       /\ data.data.ipcBaseAddr # Undefined
  /\ data.messageType = PLUGIN_REGISTER_REQUEST => data.data.pluginId # Undefined

(***************************************************************************)
(* One observable operation of a call: a log line, a transport call, a     *)
(* callback invocation, a settle call or an emitted event.                 *)
(***************************************************************************)
Op(op, n, arg) == [op |-> op, n |-> n, arg |-> arg]

Call(call, sock, buf, threw, ops) ==
  [call |-> call, sock |-> sock, buf |-> buf, threw |-> threw, ops |-> ops,
   pending |-> deferredReply, msg |-> JsonNull]

\* An onData call that handed msg to the socket's onMsg callback.
Delivered(msg, sock, buf, threw, ops) ==
  [Call("onData", sock, buf, threw, ops) EXCEPT !.msg = msg]

(***************************************************************************)
(* IpcSocket.                                                              *)
(***************************************************************************)
\* A constructor whose switch has no default case.
Supported_Any(protocol) == TRUE

Supported(protocol) == protocol \in {"ipc", "inproc"}

IpcFile(protocol, baseAddr, appInstance) ==
  IF protocol = "ipc" THEN <<"/tmp/", baseAddr>> ELSE <<appInstance, "-", baseAddr>>

IpcAddr(protocol, ipcFile) == <<protocol, "://">> \o ipcFile

\* The object the constructor returns for a supported protocol; onMsg is the
\* number of the AddonManagerProxy whose onMsg is bound, Null for onManagerMsg.
IpcSocket(id, name, socketType, protocol, baseAddr, onMsg, appInstance) ==
  [socketId |-> id, name |-> name, socketType |-> socketType, protocol |-> protocol,
   ipcFile |-> IpcFile(protocol, baseAddr, appInstance),
   ipcAddr |-> IpcAddr(protocol, IpcFile(protocol, baseAddr, appInstance)),
   connected |-> FALSE, bound |-> FALSE, closed |-> FALSE, sent |-> <<>>,
   onMsg |-> onMsg]

\* connect() that leaves the connected flag alone.
Connected_FlagNotSet(s) == s

\* connect(): the socket afterwards, the registry afterwards, the lines logged.
Connected(s) == [s EXCEPT !.connected = TRUE]

ConnectedAddrsOnConnect(s, addrs) ==
  IF s.socketType = "pair" THEN addrs \cup {s.ipcAddr} ELSE addrs

ConnectOps(s, i, addrs) ==
  (IF s.bound THEN <<Op("error", i, "socket already bound")>> ELSE <<>>)
  \o (IF s.connected THEN <<Op("error", i, "socket already connected")>> ELSE <<>>)
  \o (IF s.socketType = "pair" /\ s.ipcAddr \in addrs
        THEN <<Op("error", i, "address already connected")>> ELSE <<>>)
  \o <<Op("connect", i, "")>>

\* bind(): the socket afterwards, the registry and the filesystem afterwards
\* (the transport's bind makes the socket file of an ipc address), the lines
\* logged and the calls made.
\* bind() that sets the flag of a fresh socket only.
Bound_OnlyWhenFree(s) == IF s.bound \/ s.connected THEN s ELSE [s EXCEPT !.bound = TRUE]

Bound(s) == [s EXCEPT !.bound = TRUE]

\* bind() that never enters the address in the registry.
BoundAddrsOnBind_Forget(s, addrs) == addrs

BoundAddrsOnBind(s, addrs) ==
  IF s.socketType = "pair" THEN addrs \cup {s.ipcAddr} ELSE addrs

\* bind() that never looks for a stale file.
Unlinks_Never(s, fs) == FALSE

Unlinks(s, fs) == s.protocol = "ipc" /\ s.ipcFile \in fs

FilesOnBind(s, fs) == IF s.protocol = "ipc" THEN fs \cup {s.ipcFile} ELSE fs

BindOps(s, i, addrs, fs) ==
  (IF s.bound THEN <<Op("error", i, "socket already bound")>> ELSE <<>>)
  \o (IF s.connected THEN <<Op("error", i, "socket already connected")>> ELSE <<>>)
  \o (IF s.socketType = "pair" /\ s.ipcAddr \in addrs
        THEN <<Op("error", i, "address already bound")>> ELSE <<>>)
  \o (IF Unlinks(s, fs) THEN <<Op("unlink", i, "")>> ELSE <<>>)
  \o <<Op("bind", i, "")>>

\* close(): the socket afterwards, the registries afterwards, the lines logged.
Closed(s) ==
  IF s.connected THEN [s EXCEPT !.connected = FALSE, !.closed = TRUE]
  ELSE IF s.bound THEN [s EXCEPT !.bound = FALSE, !.closed = TRUE]
  ELSE [s EXCEPT !.closed = TRUE]

ConnectedAddrsOnClose(s, addrs) ==
  IF s.connected /\ s.socketType = "pair" THEN addrs \ {s.ipcAddr} ELSE addrs

BoundAddrsOnClose(s, addrs) ==
  IF ~s.connected /\ s.bound /\ s.socketType = "pair" THEN addrs \ {s.ipcAddr}
  ELSE addrs

\* close() that leaves the transport's socket open.
CloseOps_ErrorOnly(s, i) ==
  IF ~s.connected /\ ~s.bound
  THEN <<Op("error", i, "socket not connected or bound")>> ELSE <<>>

CloseOps(s, i) ==
  (IF ~s.connected /\ ~s.bound
     THEN <<Op("error", i, "socket not connected or bound")>> ELSE <<>>)
  \o <<Op("close", i, "")>>

\* sendJson that puts the text in front of the ones handed over before.
SentJson_Prepend(s, obj) == [s EXCEPT !.sent = <<JSONStringify(obj)>> \o @]

\* sendJson(obj): the text is handed to the transport.
SentJson(s, obj) == [s EXCEPT !.sent = Append(@, JSONStringify(obj))]

(***************************************************************************)
(* Deferred: resolve and reject call the functions the Promise constructor *)
(* handed out, which act on a pending promise only.                        *)
(***************************************************************************)
Deferred(id, owner) == [id |-> id, owner |-> owner, state |-> "pending", value |-> 0]

\* resolve() that settles again a promise already settled.
Resolved_Again(d, arg) == [d EXCEPT !.state = "resolved", !.value = arg]

Resolved(d, arg) ==
  IF d.state = "pending" THEN [d EXCEPT !.state = "resolved", !.value = arg] ELSE d

Rejected(d, arg) ==
  IF d.state = "pending" THEN [d EXCEPT !.state = "rejected", !.value = arg] ELSE d

(***************************************************************************)
(* PluginClient.                                                           *)
(***************************************************************************)
\* register() without its guard.
AlreadyWaiting_NoGuard == FALSE

\* The guard of register(): a registration reply is being waited for.
AlreadyWaiting == deferredReply # Null

\* onManagerMsg without its guard.
NoDeferredReply_Unchecked == FALSE

\* The guard of onManagerMsg: no registration reply is being waited for.
NoDeferredReply == deferredReply = Null

\* A registration request that leaves the plugin's identity out.
RegisterRequest_NoId(id) == Msg(PLUGIN_REGISTER_REQUEST, EmptyData)

\* The message register() sends.
RegisterRequest(id) == Msg(PLUGIN_REGISTER_REQUEST, [EmptyData EXCEPT !.pluginId = id])

\* onManagerMsg taking every message, or no message, for the response.
IsRegisterResponse_Any(msg) == TRUE

IsRegisterResponse_None(msg) == FALSE

\* The test onManagerMsg makes on a message that is not null.
IsRegisterResponse(msg) == msg.messageType = PLUGIN_REGISTER_RESPONSE

\* The client and the channel module after construction.
InitClient ==
  /\ ipcProtocol \in Protocols
  /\ pluginId \in PluginIds
  /\ sockets = <<>>
  /\ socketId = 0
  /\ boundAddrs = {}
  /\ connectedAddrs = {}
  /\ deferreds = <<>>
  /\ deferredReply = Null
  /\ gatewayVersion = Undefined
  /\ userProfile = Undefined
  /\ addonManager = Null
  /\ pluginIpcBaseAddr = Undefined
  /\ pluginIpcSocket = Null
  /\ managerIpcSocket = Null
  /\ unexpectedLogged = {}
  /\ last = [call |-> "new PluginClient", sock |-> 0, buf |-> "", threw |-> FALSE,
             ops |-> <<>>, pending |-> Null, msg |-> JsonNull]

\* A device without properties and without actions, an adapter without
\* devices, and no Action made yet.
NoProperties == [name \in {} |-> 0]
NoActions == [name \in {} |-> 0]

\* The places the Database constructor looks for the gateway's database, in
\* order, and the package the add-on is.
DB_PATHS == <<"~/.mozilla-iot/config/db.sqlite3", "./db.sqlite3">>
PackageName == "acme-adapter"

\* new Database(packageName, path) in a filesystem where the paths fs exist:
\* without a path it takes the first of DB_PATHS that exists; a path that
\* is null is written Undefined.
Database(packageName, path, fs) ==
  LET found == {n \in 1..Len(DB_PATHS) : DB_PATHS[n] \in fs}
  IN [packageName |-> packageName,
      path |-> IF path # Undefined THEN path
               ELSE IF found = {} THEN Undefined
               ELSE DB_PATHS[CHOOSE n \in found : \A m \in found : n <= m],
      conn |-> Null]

InitAddon ==
  /\ adapter = [id |-> "adapter1", devices |-> {}]
  /\ createdActions = <<>>
  /\ database = Database(PackageName, Undefined, {})
  /\ connections = <<>>

Init ==
  /\ InitClient
  /\ files = {}
  /\ device = [id |-> "d1", properties |-> NoProperties, actions |-> NoActions]
  /\ InitAddon

register ==
  IF AlreadyWaiting
  THEN /\ last' = Call("register", 0, "", FALSE,
                       <<Op("error", 0, "Already waiting for registration reply")>>)
       /\ UNCHANGED <<adapter, createdActions, files, database, connections, device, ipcProtocol, pluginId, sockets, socketId, boundAddrs,
                      connectedAddrs, deferreds, deferredReply, gatewayVersion,
                      userProfile, addonManager, pluginIpcBaseAddr, pluginIpcSocket,
                      managerIpcSocket, unexpectedLogged>>
  ELSE /\ deferreds' = Append(deferreds, Deferred(Len(deferreds) + 1, "client"))
       /\ deferredReply' = Len(deferreds) + 1
       /\ socketId' = socketId + 1
       /\ IF ~Supported(ipcProtocol)
          THEN \* the IpcSocket constructor throws; nothing is assigned
               /\ last' = Call("register", 0, "", TRUE,
                               <<Op("new Deferred", Len(deferreds) + 1, ""),
                                 Op("error", 0, "Unsupported IPC protocol")>>)
               /\ UNCHANGED <<sockets, connectedAddrs, managerIpcSocket>>
          ELSE LET i == Len(sockets) + 1
                   s0 == IpcSocket(socketId + 1, "PluginClientServer", "req",
                                   ipcProtocol, ManagerBaseAddr, Null, AppInstance)
                   s1 == Connected(s0)
                   s2 == SentJson(s1, RegisterRequest(pluginId))
               IN /\ Len(sockets) < MaxSockets
                  /\ sockets' = Append(sockets, s2)
                  /\ connectedAddrs' = ConnectedAddrsOnConnect(s0, connectedAddrs)
                  /\ managerIpcSocket' = i
                  /\ last' = Call("register", i, "", FALSE,
                                  <<Op("new Deferred", Len(deferreds) + 1, ""),
                                    Op("new IpcSocket", i, "req")>>
                                  \o ConnectOps(s0, i, connectedAddrs)
                                  \o <<Op("send", i, s2.sent[Len(s2.sent)])>>)
       /\ UNCHANGED <<adapter, createdActions, files, database, connections, device, ipcProtocol, pluginId, boundAddrs, gatewayVersion, userProfile,
                      addonManager, pluginIpcBaseAddr, pluginIpcSocket,
                      unexpectedLogged>>

\* onManagerMsg(msg), called by onData of socket i on the frame buf, after the
\* operations ops of onData.
onManagerMsg(msg, i, buf, ops) ==
  IF NoDeferredReply
  THEN /\ last' = Delivered(msg, i, buf, FALSE,
                       ops \o <<Op("error", 0, "No deferredReply setup")>>)
       /\ UNCHANGED <<adapter, createdActions, files, database, connections, device, ipcProtocol, pluginId, sockets, socketId, boundAddrs,
                      connectedAddrs, deferreds, deferredReply, gatewayVersion,
                      userProfile, addonManager, pluginIpcBaseAddr, pluginIpcSocket,
                      managerIpcSocket, unexpectedLogged>>
  ELSE IF msg.kind = "null" \/ (IsRegisterResponse(msg) /\ msg.data.kind # "object")
  THEN \* msg.messageType of null, or msg.data.gatewayVersion of undefined: TypeError
       /\ last' = Delivered(msg, i, buf, TRUE, ops \o <<Op("throw", 0, "TypeError")>>)
       /\ UNCHANGED <<adapter, createdActions, files, database, connections, device, ipcProtocol, pluginId, sockets, socketId, boundAddrs,
                      connectedAddrs, deferreds, deferredReply, gatewayVersion,
                      userProfile, addonManager, pluginIpcBaseAddr, pluginIpcSocket,
                      managerIpcSocket, unexpectedLogged>>
  ELSE IF IsRegisterResponse(msg)
  THEN LET j == Len(sockets) + 1
           proxy == addonManager + 1
           s0 == IpcSocket(socketId + 1, "PluginClient", "pair", ipcProtocol,
                           msg.data.ipcBaseAddr, proxy, AppInstance)
       IN /\ Len(sockets) < MaxSockets
          /\ gatewayVersion' = msg.data.gatewayVersion
          /\ userProfile' = msg.data.userProfile
          /\ addonManager' = proxy
          /\ pluginIpcBaseAddr' = msg.data.ipcBaseAddr
          /\ socketId' = socketId + 1
          /\ IF ~Supported(ipcProtocol)
             THEN /\ last' = Delivered(msg, i, buf, TRUE,
                                  ops \o <<Op("error", 0, "Unsupported IPC protocol")>>)
                  /\ UNCHANGED <<sockets, connectedAddrs, pluginIpcSocket, deferreds,
                                 deferredReply>>
             ELSE /\ sockets' = Append(sockets, Connected(s0))
                  /\ connectedAddrs' = ConnectedAddrsOnConnect(s0, connectedAddrs)
                  /\ pluginIpcSocket' = j
                  /\ deferredReply' = Null
                  /\ deferreds' = [deferreds EXCEPT
                                     ![deferredReply] = Resolved(@, proxy)]
                  /\ last' = Delivered(msg, i, buf, FALSE,
                                  ops \o <<Op("new IpcSocket", j, "pair")>>
                                  \o ConnectOps(s0, j, connectedAddrs)
                                  \o <<Op("resolve", deferredReply, "")>>)
          /\ UNCHANGED <<adapter, createdActions, files, database, connections, device, ipcProtocol, pluginId, boundAddrs, managerIpcSocket,
                         unexpectedLogged>>
  ELSE /\ unexpectedLogged' = unexpectedLogged \cup {deferredReply}
       /\ last' = Delivered(msg, i, buf, FALSE,
                       ops \o <<Op("error", 0, "Unexpected registration reply")>>)
       /\ UNCHANGED <<adapter, createdActions, files, database, connections, device, ipcProtocol, pluginId, sockets, socketId, boundAddrs,
                      connectedAddrs, deferreds, deferredReply, gatewayVersion,
                      userProfile, addonManager, pluginIpcBaseAddr, pluginIpcSocket,
                      managerIpcSocket>>

\* AddonManagerProxy.onMsg(msg) of the proxy bound to socket i: the dispatch
\* of session messages, which touches none of the state modelled here.
addonManagerOnMsg(msg, i, buf, ops) ==
  /\ last' = Delivered(msg, i, buf, FALSE, ops)
  /\ UNCHANGED <<adapter, createdActions, files, database, connections, device, ipcProtocol, pluginId, sockets, socketId, boundAddrs,
                 connectedAddrs, deferreds, deferredReply, gatewayVersion,
                 userProfile, addonManager, pluginIpcBaseAddr, pluginIpcSocket,
                 managerIpcSocket, unexpectedLogged>>

\* IpcSocket.onData(buf) on socket i: the transport delivers a frame.
onData(i, buf) ==
  /\ ~sockets[i].closed
  /\ LET parsed == JSONParse(buf)
         data == parsed.value
     IN IF ~parsed.ok
        THEN /\ last' = Call("onData", i, buf, FALSE,
                             <<Op("error", i, "Error parsing message as JSON")>>)
             /\ UNCHANGED <<adapter, createdActions, files, database, connections, device, ipcProtocol, pluginId, sockets, socketId, boundAddrs,
                            connectedAddrs, deferreds, deferredReply, gatewayVersion,
                            userProfile, addonManager, pluginIpcBaseAddr,
                            pluginIpcSocket, managerIpcSocket, unexpectedLogged>>
        ELSE LET ops == (IF ~Validate(data)
                           THEN <<Op("error", i, "Invalid message received")>>
                           ELSE <<>>)
                        \o <<Op("onMsg", i, buf)>>
             IN IF sockets[i].onMsg = Null
                THEN onManagerMsg(data, i, buf, ops)
                ELSE addonManagerOnMsg(data, i, buf, ops)

\* The session socket, if there is one, has been handed fewer than max messages.
CanSend(max) == pluginIpcSocket # Null => Len(sockets[pluginIpcSocket].sent) < max

\* sendNotification(methodType, data)
sendNotification(methodType, data) ==
  LET obj == Msg(methodType, [data EXCEPT !.pluginId = pluginId])
  IN /\ IF pluginIpcSocket # Null
        THEN /\ sockets' = [sockets EXCEPT ![pluginIpcSocket] = SentJson(@, obj)]
             /\ last' = Call("sendNotification", pluginIpcSocket, "", FALSE,
                             <<Op("send", pluginIpcSocket, JSONStringify(obj))>>)
        ELSE /\ last' = Call("sendNotification", 0, "", FALSE, <<>>)
             /\ UNCHANGED sockets
     /\ UNCHANGED <<adapter, createdActions, files, database, connections, device, ipcProtocol, pluginId, socketId, boundAddrs, connectedAddrs,
                    deferreds, deferredReply, gatewayVersion, userProfile,
                    addonManager, pluginIpcBaseAddr, pluginIpcSocket,
                    managerIpcSocket, unexpectedLogged>>

\* unload()
unload ==
  LET p == pluginIpcSocket
      m == managerIpcSocket
      afterP == IF p # Null THEN [sockets EXCEPT ![p] = Closed(@)] ELSE sockets
      cAfterP == IF p # Null THEN ConnectedAddrsOnClose(sockets[p], connectedAddrs)
                 ELSE connectedAddrs
      bAfterP == IF p # Null THEN BoundAddrsOnClose(sockets[p], boundAddrs)
                 ELSE boundAddrs
      afterM == IF m # Null THEN [afterP EXCEPT ![m] = Closed(@)] ELSE afterP
      cAfterM == IF m # Null THEN ConnectedAddrsOnClose(afterP[m], cAfterP) ELSE cAfterP
      bAfterM == IF m # Null THEN BoundAddrsOnClose(afterP[m], bAfterP) ELSE bAfterP
  IN /\ sockets' = afterM
     /\ connectedAddrs' = cAfterM
     /\ boundAddrs' = bAfterM
     /\ last' = Call("unload", 0, "", FALSE,
                     (IF p # Null THEN CloseOps(sockets[p], p) ELSE <<>>)
                     \o (IF m # Null THEN CloseOps(afterP[m], m) ELSE <<>>)
                     \o <<Op("emit", 0, "unloaded")>>)
     /\ UNCHANGED <<adapter, createdActions, files, database, connections, device, ipcProtocol, pluginId, socketId, deferreds, deferredReply,
                    gatewayVersion, userProfile, addonManager, pluginIpcBaseAddr,
                    pluginIpcSocket, managerIpcSocket, unexpectedLogged>>

(***************************************************************************)
(* IpcSocket objects made and driven by other code (a server end, a test). *)
(***************************************************************************)
clientVars == <<ipcProtocol, pluginId, deferreds, deferredReply, gatewayVersion,
                userProfile, addonManager, pluginIpcBaseAddr, pluginIpcSocket,
                managerIpcSocket, unexpectedLogged>>

SocketTypes == {"pair", "req"}
ChannelAddrs == {"acme.session"}

\* new IpcSocket(name, socketType, ipcProtocol, baseAddr, onMsg, appInstance)
newIpcSocket(socketType, baseAddr) ==
  /\ socketId < MaxChannels
  /\ socketId' = socketId + 1
  /\ IF ~Supported(ipcProtocol)
     THEN /\ last' = Call("new IpcSocket", 0, "", TRUE,
                          <<Op("error", 0, "Unsupported IPC protocol")>>)
          /\ UNCHANGED sockets
     ELSE /\ sockets' = Append(sockets,
                               IpcSocket(socketId + 1, "Server", socketType,
                                         ipcProtocol, baseAddr, OtherHandler,
                                         AppInstance))
          /\ last' = Call("new IpcSocket", Len(sockets) + 1, "", FALSE,
                          <<Op("new IpcSocket", Len(sockets) + 1, socketType)>>)
  /\ UNCHANGED <<clientVars, boundAddrs, connectedAddrs, files, database, connections, device, adapter,
               createdActions>>

\* bind() on socket i, which has not been closed
bind(i) ==
  /\ ~sockets[i].closed
  /\ sockets' = [sockets EXCEPT ![i] = Bound(@)]
  /\ boundAddrs' = BoundAddrsOnBind(sockets[i], boundAddrs)
  /\ files' = FilesOnBind(sockets[i], files)
  /\ last' = Call("bind", i, "", FALSE, BindOps(sockets[i], i, boundAddrs, files))
  /\ UNCHANGED <<clientVars, socketId, connectedAddrs, device, adapter,
               createdActions, database, connections>>

\* connect() on socket i, which has not been closed
connect(i) ==
  /\ ~sockets[i].closed
  /\ sockets' = [sockets EXCEPT ![i] = Connected(@)]
  /\ connectedAddrs' = ConnectedAddrsOnConnect(sockets[i], connectedAddrs)
  /\ last' = Call("connect", i, "", FALSE, ConnectOps(sockets[i], i, connectedAddrs))
  /\ UNCHANGED <<clientVars, socketId, boundAddrs, files, database, connections, device, adapter,
               createdActions>>

\* close() on socket i
close(i) ==
  /\ sockets' = [sockets EXCEPT ![i] = Closed(@)]
  /\ connectedAddrs' = ConnectedAddrsOnClose(sockets[i], connectedAddrs)
  /\ boundAddrs' = BoundAddrsOnClose(sockets[i], boundAddrs)
  /\ last' = Call("close", i, "", FALSE, CloseOps(sockets[i], i))
  /\ UNCHANGED <<clientVars, socketId, files, database, connections, device, adapter,
               createdActions>>

\* sendJson(obj) on socket i, which has not been closed
sendJson(i, obj) ==
  /\ ~sockets[i].closed
  /\ sockets' = [sockets EXCEPT ![i] = SentJson(@, obj)]
  /\ last' = Call("sendJson", i, "", FALSE, <<Op("send", i, JSONStringify(obj))>>)
  /\ UNCHANGED <<clientVars, socketId, boundAddrs, connectedAddrs, files, database, connections, device, adapter,
               createdActions>>

\* Socket files left behind by a process that crashed.
StaleFiles == {<<"/tmp/", a>> : a \in ChannelAddrs}

InitChannel ==
  /\ InitClient
  /\ files \in SUBSET StaleFiles
  /\ device = [id |-> "d1", properties |-> NoProperties, actions |-> NoActions]
  /\ InitAddon

NextChannel ==
  \/ \E socketType \in SocketTypes, baseAddr \in ChannelAddrs :
       newIpcSocket(socketType, baseAddr)
  \/ \E i \in 1..Len(sockets) : bind(i)
  \/ \E i \in 1..Len(sockets) : connect(i)
  \/ \E i \in 1..Len(sockets) : close(i)

SpecChannel == InitChannel /\ [][NextChannel]_vars

\* The messages the two ends of a channel build for a plugin, one of them a
\* registration request without its pluginId.
Messages(id) ==
  {Msg(PLUGIN_REGISTER_REQUEST, [EmptyData EXCEPT !.pluginId = id]),
   Msg(PLUGIN_REGISTER_REQUEST, EmptyData),
   Msg(PLUGIN_REGISTER_RESPONSE, ResponseData("1.0", "{}", "acme.session")),
   Msg(PROPERTY_CHANGED, [EmptyData EXCEPT !.pluginId = id]),
   Msg(ACTION_STATUS, [EmptyData EXCEPT !.pluginId = id]),
   Msg(UNLOAD, EmptyData)}

\* The number of messages handed to the transport, over all sockets.
InFlight ==
  Cardinality(UNION {{<<i, k>> : k \in 1..Len(sockets[i].sent)} :
                       i \in 1..Len(sockets)})

\* Two ends of a pair channel: what one end sends, the transport hands to
\* onData of the other end.
NextRoundTrip ==
  \/ \E baseAddr \in ChannelAddrs : newIpcSocket("pair", baseAddr)
  \/ \E i \in 1..Len(sockets), obj \in Messages(pluginId) :
       InFlight < MaxSent /\ sendJson(i, obj)
  \/ \E i \in 1..Len(sockets), j \in 1..Len(sockets) :
       \E k \in 1..Len(sockets[i].sent) :
         /\ i # j
         /\ sockets[i].ipcAddr = sockets[j].ipcAddr
         /\ onData(j, sockets[i].sent[k])

SpecRoundTrip == Init /\ [][NextRoundTrip]_vars

(***************************************************************************)
(* Device and Property.  A JavaScript value is a record of its type and a  *)
(* number: booleans are 0 and 1, undefined is 0.                           *)
(***************************************************************************)
JSBoolean(b) == [t |-> "boolean", n |-> IF b THEN 1 ELSE 0]
JSNumber(n) == [t |-> "number", n |-> n]
JSUndefined == [t |-> "undefined", n |-> 0]

\* !!value
Truthy(value) == value.t # "undefined" /\ value.n # 0

\* Number(value) is NaN
IsNaN(value) == value.t = "undefined"

\* value < limit, value > limit and value % step !== 0 after conversion to
\* numbers; a comparison with NaN is false and NaN % step is NaN.
LessThan(value, limit) == ~IsNaN(value) /\ ~IsNaN(limit) /\ value.n < limit.n
GreaterThan(value, limit) == ~IsNaN(value) /\ ~IsNaN(limit) /\ value.n > limit.n
NotMultipleOf(value, step) == IsNaN(value) \/ value.n % step.n # 0

\* enum.includes(value)
Includes(enum, value) == \E k \in 1..Len(enum) : enum[k] = value

\* propertyDescr.minimum || propertyDescr.min, and the same for the maximum
FromLegacy(limit, legacyLimit) == IF Truthy(limit) THEN limit ELSE legacyLimit

\* new Property(device, name, propertyDescr) for a description without the
\* legacy members min and max: no value yet
Property(name, type, readOnly, minimum, maximum, multipleOf, enum) ==
  [name |-> name, type |-> type, readOnly |-> readOnly,
   minimum |-> FromLegacy(minimum, JSUndefined),
   maximum |-> FromLegacy(maximum, JSUndefined),
   multipleOf |-> multipleOf, enum |-> enum,
   value |-> JSUndefined,
   legacyPropertyDescr |-> [minimum |-> minimum, maximum |-> maximum]]

\* setCachedValue(value): the property afterwards
SetCachedValue(property, value) ==
  IF property.type = "boolean"
  THEN [property EXCEPT !.value = JSBoolean(Truthy(value))]
  ELSE [property EXCEPT !.value = value]

\* value != oldValue, which converts both to numbers first.
HasChanged_Loose(oldValue, value) == IsNaN(oldValue) # IsNaN(value) \/ oldValue.n # value.n

\* A setCachedValueAndNotify that notifies on every call.
HasChanged_Always(oldValue, value) == TRUE

\* oldValue !== this.value
HasChanged(oldValue, value) == oldValue # value

\* The reason setValue(value) rejects with, "" when it goes on to set.
RejectReason(property, value) ==
  IF property.readOnly THEN "Read-only property"
  ELSE IF Truthy(property.minimum) /\ LessThan(value, property.minimum)
  THEN "Value less than minimum"
  ELSE IF Truthy(property.maximum) /\ GreaterThan(value, property.maximum)
  THEN "Value greater than maximum"
  ELSE IF Truthy(property.multipleOf) /\ NotMultipleOf(value, property.multipleOf)
  THEN "Value is not a multiple of"
  ELSE IF Len(property.enum) > 0 /\ ~Includes(property.enum, value)
  THEN "Invalid enum value"
  ELSE ""

\* setCachedValueAndNotify(value): the property afterwards, the calls made
\* and the value returned
SetCachedValueAndNotify(property, value) ==
  LET after == SetCachedValue(property, value)
      hasChanged == HasChanged(property.value, after.value)
  IN [property |-> after,
      ops |-> IF hasChanged
              THEN <<Op("sendPropertyChangedNotification", 0, property.name)>>
              ELSE <<>>,
      hasChanged |-> hasChanged]

\* setValue that stores the value before it looks at the limits.
SetValue_StoresFirst(property, value) ==
  LET reason == RejectReason(property, value)
      set == SetCachedValueAndNotify(property, value)
  IN [property |-> set.property,
      ops |-> IF reason # "" THEN <<Op("reject", 0, reason)>>
              ELSE set.ops \o <<Op("resolve", set.property.value.n,
                                   set.property.value.t)>>]

\* setValue(value): the property afterwards and the calls made, the last of
\* them settling the promise
SetValue(property, value) ==
  LET reason == RejectReason(property, value)
      set == SetCachedValueAndNotify(property, value)
  IN IF reason # ""
     THEN [property |-> property, ops |-> <<Op("reject", 0, reason)>>]
     ELSE [property |-> set.property,
           ops |-> set.ops \o <<Op("resolve", set.property.value.n,
                                   set.property.value.t)>>]

PropertyNames == {"on", "level"}
Values == {JSUndefined, JSBoolean(FALSE), JSBoolean(TRUE)}
            \cup {JSNumber(n) : n \in -1..MaxValue}

\* setProperty(propertyName, value) on the device dev: the device afterwards
\* and the calls made
SetProperty(dev, propertyName, value) ==
  IF propertyName \notin DOMAIN dev.properties
  THEN [device |-> dev, ops |-> <<Op("reject", 0, "Property not found")>>]
  ELSE LET set == SetValue(dev.properties[propertyName], value)
       IN [device |-> [dev EXCEPT !.properties[propertyName] = set.property],
           ops |-> set.ops]

\* device.setProperty(propertyName, value), with property.setValue(value) and
\* setCachedValueAndNotify(value) inside it
setProperty(propertyName, value) ==
  /\ device' = SetProperty(device, propertyName, value).device
  /\ last' = Call("setProperty", 0, propertyName, FALSE,
                  <<Op("setProperty", value.n, value.t)>>
                  \o SetProperty(device, propertyName, value).ops)
  /\ UNCHANGED <<clientVars, sockets, socketId, boundAddrs, connectedAddrs, files, database, connections,
                 adapter, createdActions>>

\* property.setCachedValueAndNotify(value) on a property of the device, as
\* the add-on calls it when the hardware reports a value
setCachedValueAndNotify(propertyName, value) ==
  LET set == SetCachedValueAndNotify(device.properties[propertyName], value)
  IN /\ device' = [device EXCEPT !.properties[propertyName] = set.property]
     /\ last' = Call("setCachedValueAndNotify", 0, propertyName, FALSE,
                     <<Op("setCachedValueAndNotify", value.n, value.t)>>
                     \o set.ops
                     \o <<Op("return", IF set.hasChanged THEN 1 ELSE 0, "boolean")>>)
     /\ UNCHANGED <<clientVars, sockets, socketId, boundAddrs, connectedAddrs, files, database, connections,
                 adapter, createdActions>>

\* The devices an add-on makes: a switch and a level, the level with or
\* without limits.
Devices ==
  {[id |-> "d1",
    properties |->
      [name \in PropertyNames |->
         IF name = "on"
         THEN Property("on", "boolean", readOnly, JSUndefined, JSUndefined,
                       JSUndefined, <<>>)
         ELSE Property("level", "integer", FALSE, minimum, maximum, multipleOf,
                       enum)],
    actions |-> NoActions] :
     readOnly \in BOOLEAN,
     minimum \in {JSUndefined, JSNumber(0), JSNumber(1)},
     maximum \in {JSUndefined, JSNumber(0), JSNumber(MaxValue)},
     multipleOf \in {JSUndefined, JSNumber(2)},
     enum \in {<<>>, <<JSNumber(0), JSNumber(1)>>}}

InitDevice ==
  /\ InitClient
  /\ ipcProtocol = "ipc"
  /\ pluginId = "acme"
  /\ files = {}
  /\ device \in Devices
  /\ InitAddon

NextDevice ==
  \/ \E propertyName \in PropertyNames \cup {"missing"}, value \in Values :
       setProperty(propertyName, value)
  \/ \E propertyName \in PropertyNames, value \in Values :
       setCachedValueAndNotify(propertyName, value)

SpecDevice == InitDevice /\ [][NextDevice]_vars

(***************************************************************************)
(* Adapter: its devices object, keyed by device id, and the router's        *)
(* dispatch of a set-property request to it.                                *)
(***************************************************************************)
DeviceIds == {"d1", "d2"}

\* The Device object with the given id: d1 is the device of the variable
\* device, any other one a device without properties.
DeviceOf(id) ==
  IF id = device.id THEN device
  ELSE [id |-> id, properties |-> NoProperties, actions |-> NoActions]

\* A getDevice that answers with the first device for an id it does not have.
GetDevice_Fallback(a, id) == IF a.devices = {} THEN Undefined ELSE device.id

\* getDevice(id): the id of the device found, Undefined when there is none
GetDevice(a, id) == IF id \in a.devices THEN id ELSE Undefined

\* handleDeviceRemoved that tells the manager before it deletes.
HandleDeviceRemoved_NotifyFirst(a, id) ==
  [adapter |-> [a EXCEPT !.devices = @ \ {id}],
   ops |-> <<Op("manager.handleDeviceRemoved", IF id \in a.devices THEN 1 ELSE 0, id)>>]

\* handleDeviceAdded(device) and handleDeviceRemoved(device): the adapter
\* afterwards and the call made, with whether the adapter has the device at
\* the time of the call (1) or not (0)
HandleDeviceAdded(a, id) ==
  LET after == [a EXCEPT !.devices = @ \cup {id}]
  IN [adapter |-> after,
      ops |-> <<Op("manager.handleDeviceAdded",
                   IF id \in after.devices THEN 1 ELSE 0, id)>>]

HandleDeviceRemoved(a, id) ==
  LET after == [a EXCEPT !.devices = @ \ {id}]
  IN [adapter |-> after,
      ops |-> <<Op("manager.handleDeviceRemoved",
                   IF id \in after.devices THEN 1 ELSE 0, id)>>]

\* adapter.handleDeviceAdded(device) for the device with this id
handleDeviceAdded(id) ==
  /\ adapter' = HandleDeviceAdded(adapter, id).adapter
  /\ last' = Call("handleDeviceAdded", 0, id, FALSE, HandleDeviceAdded(adapter, id).ops)
  /\ UNCHANGED <<clientVars, sockets, socketId, boundAddrs, connectedAddrs, files, database, connections,
                 device, createdActions>>

\* adapter.handleDeviceRemoved(device)
handleDeviceRemoved(id) ==
  /\ adapter' = HandleDeviceRemoved(adapter, id).adapter
  /\ last' = Call("handleDeviceRemoved", 0, id, FALSE,
                  HandleDeviceRemoved(adapter, id).ops)
  /\ UNCHANGED <<clientVars, sockets, socketId, boundAddrs, connectedAddrs, files, database, connections,
                 device, createdActions>>

\* adapter.removeThing(device)
removeThing(id) ==
  /\ adapter' = HandleDeviceRemoved(adapter, id).adapter
  /\ last' = Call("removeThing", 0, id, FALSE,
                  <<Op("log", 0, "removeThing started")>>
                  \o HandleDeviceRemoved(adapter, id).ops)
  /\ UNCHANGED <<clientVars, sockets, socketId, boundAddrs, connectedAddrs, files, database, connections,
                 device, createdActions>>

\* adapter.cancelRemoveThing(device)
cancelRemoveThing(id) ==
  /\ last' = Call("cancelRemoveThing", 0, id, FALSE, <<Op("log", 0, "cancelRemoveThing")>>)
  /\ UNCHANGED <<clientVars, sockets, socketId, boundAddrs, connectedAddrs, files, database, connections,
                 device, adapter, createdActions>>

\* adapter.setPin(deviceId, pin)
setPin(deviceId) ==
  /\ last' = Call("setPin", 0, deviceId, FALSE,
                  IF GetDevice(adapter, deviceId) # Undefined
                  THEN <<Op("log", 0, "setPin"), Op("resolve", 0, "")>>
                  ELSE <<Op("reject", 0, "Device not found")>>)
  /\ UNCHANGED <<clientVars, sockets, socketId, boundAddrs, connectedAddrs, files, database, connections,
                 device, adapter, createdActions>>

HasReject(ops) == \E n \in 1..Len(ops) : ops[n].op = "reject"

\* The router's handling of a set-property request: the device is looked up
\* in the adapter; without one the message is logged and dropped, with one
\* device.setProperty is called and a rejection of its promise is logged.
onSetProperty(deviceId, propertyName, value) ==
  LET found == GetDevice(adapter, deviceId)
      set == SetProperty(DeviceOf(found), propertyName, value)
  IN /\ IF found = Undefined
        THEN /\ last' = Call("onSetProperty", 0, deviceId, FALSE,
                             <<Op("setProperty", value.n, propertyName),
                               Op("log", 0, "Device not found")>>)
             /\ UNCHANGED device
        ELSE /\ device' = IF found = device.id THEN set.device ELSE device
             /\ last' = Call("onSetProperty", 0, deviceId, FALSE,
                             <<Op("setProperty", value.n, propertyName)>>
                             \o set.ops
                             \o (IF HasReject(set.ops)
                                   THEN <<Op("log", 0, "setProperty rejected")>>
                                   ELSE <<>>))
     /\ UNCHANGED <<clientVars, sockets, socketId, boundAddrs, connectedAddrs, files, database, connections,
                    adapter, createdActions>>

\* A device with the one property 'on'.
Switch ==
  [id |-> "d1",
   properties |-> [name \in {"on"} |->
                     Property("on", "boolean", FALSE, JSUndefined, JSUndefined,
                              JSUndefined, <<>>)],
   actions |-> NoActions]

InitAdapter ==
  /\ InitClient
  /\ ipcProtocol = "ipc"
  /\ pluginId = "acme"
  /\ files = {}
  /\ device = Switch
  /\ InitAddon

NextAdapter ==
  \/ \E id \in DeviceIds : handleDeviceAdded(id)
  \/ \E id \in DeviceIds : handleDeviceRemoved(id)
  \/ \E id \in DeviceIds : removeThing(id)
  \/ \E id \in DeviceIds : cancelRemoveThing(id)
  \/ \E deviceId \in DeviceIds \cup {"ghost"} : setPin(deviceId)
  \/ \E deviceId \in DeviceIds \cup {"ghost"}, propertyName \in {"on", "missing"},
        value \in {JSBoolean(FALSE), JSBoolean(TRUE)} :
       onSetProperty(deviceId, propertyName, value)

SpecAdapter == InitAdapter /\ [][NextAdapter]_vars

(***************************************************************************)
(* Action, and Device.requestAction.  createdActions keeps, with each       *)
(* Action, the state of the promise performAction returned for it ("threw"  *)
(* if it returned none) and of the promise requestAction returned.          *)
(***************************************************************************)
\* utils.timestamp(): the time of the call, as text
Timestamp == "timestamp"

\* new Action(id, device, name, input)
Action(id, name, input) ==
  [id |-> id, name |-> name, input |-> input, status |-> "created",
   timeRequested |-> Timestamp, timeCompleted |-> Undefined]

\* device.actionNotify(action): the manager is handed the action as it is now
ActionNotifyOps(action, k) == <<Op("sendActionStatusNotification", k, action.status)>>

\* start() that notifies before it sets the status.
Start_NotifyFirst(action, k) ==
  [action |-> [action EXCEPT !.status = "pending"], ops |-> ActionNotifyOps(action, k)]

\* start(): the Action afterwards and the calls made
Start(action, k) ==
  LET started == [action EXCEPT !.status = "pending"]
  IN [action |-> started, ops |-> ActionNotifyOps(started, k)]

\* finish(): the Action afterwards and the calls made
Finish(action, k) ==
  LET finished == [action EXCEPT !.status = "completed", !.timeCompleted = Timestamp]
  IN [action |-> finished, ops |-> ActionNotifyOps(finished, k)]

\* ajv.validate(metadata.input, input) for a schema that names a type
AjvValidate(schema, input) == input.t = schema.type

\* The state the calls of a Promise executor leave the promise in: the first
\* of resolve, reject and a thrown exception decides.
RECURSIVE PromiseState(_)
PromiseState(ops) ==
  IF ops = <<>> THEN "pending"
  ELSE IF Head(ops).op = "resolve" THEN "resolved"
  ELSE IF Head(ops).op \in {"reject", "throw"} THEN "rejected"
  ELSE PromiseState(Tail(ops))

\* A requestAction that settles its promise as performAction's promise settles.
AfterPerformAction_Awaits(performs, k) ==
  IF performs = "threw" THEN <<Op("throw", k, "performAction")>>
  ELSE IF performs = "resolved" THEN <<Op("resolve", 0, "")>>
  ELSE IF performs = "rejected" THEN <<Op("reject", 0, "performAction")>>
  ELSE <<>>

\* What follows the call performAction(action) in requestAction: an exception
\* leaves the executor; a promise gets its catch handler, resolve() is called,
\* and a promise already rejected has the handler log afterwards.
AfterPerformAction(performs, k) ==
  IF performs = "threw" THEN <<Op("throw", k, "performAction")>>
  ELSE <<Op("resolve", 0, "")>>
       \o (IF performs = "rejected" THEN <<Op("log", k, "err")>> ELSE <<>>)

\* The calls requestAction(actionId, actionName, input) makes, when the
\* Action it would make is number k and performAction answers with performs.
RequestActionOps(dev, actionName, input, performs, k) ==
  IF actionName \notin DOMAIN dev.actions
  THEN <<Op("reject", 0, "Action not found")>>
  ELSE (IF dev.actions[actionName].hasInput
           /\ ~AjvValidate(dev.actions[actionName].input, input)
          THEN <<Op("reject", 0, "input is invalid")>> ELSE <<>>)
       \o <<Op("new Action", k, actionName), Op("performAction", k, performs)>>
       \o AfterPerformAction(performs, k)

ActionNames == {"fade", "toggle"}
Inputs == {JSUndefined, JSNumber(1), JSBoolean(TRUE)}
PerformActionResults == {"pending", "resolved", "rejected", "threw"}

HasNewAction(ops) == \E n \in 1..Len(ops) : ops[n].op = "new Action"

\* device.requestAction(actionId, actionName, input)
requestAction(actionId, actionName, input, performs) ==
  LET k == Len(createdActions) + 1
      ops == RequestActionOps(device, actionName, input, performs, k)
  IN /\ Len(createdActions) < MaxActions
     /\ createdActions' =
          IF HasNewAction(ops)
          THEN Append(createdActions,
                      [action |-> Action(actionId, actionName, input),
                       performAction |-> performs,
                       requestAction |-> PromiseState(ops)])
          ELSE createdActions
     /\ last' = Call("requestAction", 0, actionName, FALSE,
                     <<Op("requestAction", input.n, input.t)>> \o ops)
     /\ UNCHANGED <<clientVars, sockets, socketId, boundAddrs, connectedAddrs, files, database, connections,
                    device, adapter>>

\* The promise performAction returned for Action k settles: the catch handler
\* requestAction attached logs a rejection.
performActionSettles(k, outcome) ==
  /\ createdActions[k].performAction = "pending"
  /\ createdActions' = [createdActions EXCEPT ![k].performAction = outcome]
  /\ last' = Call("performAction settles", 0, "", FALSE,
                  IF outcome = "rejected" THEN <<Op("log", k, "err")>> ELSE <<>>)
  /\ UNCHANGED <<clientVars, sockets, socketId, boundAddrs, connectedAddrs, files, database, connections,
                 device, adapter>>

\* action.start() on Action k
start(k) ==
  /\ createdActions' = [createdActions EXCEPT
                          ![k].action = Start(createdActions[k].action, k).action]
  /\ last' = Call("start", 0, "", FALSE, Start(createdActions[k].action, k).ops)
  /\ UNCHANGED <<clientVars, sockets, socketId, boundAddrs, connectedAddrs, files, database, connections,
                 device, adapter>>

\* action.finish() on Action k
finish(k) ==
  /\ createdActions' = [createdActions EXCEPT
                          ![k].action = Finish(createdActions[k].action, k).action]
  /\ last' = Call("finish", 0, "", FALSE, Finish(createdActions[k].action, k).ops)
  /\ UNCHANGED <<clientVars, sockets, socketId, boundAddrs, connectedAddrs, files, database, connections,
                 device, adapter>>

\* A device with two actions added: fade takes a number, toggle takes no input.
ActionMetadata(name) ==
  IF name = "fade" THEN [hasInput |-> TRUE, input |-> [type |-> "number"]]
  ELSE [hasInput |-> FALSE, input |-> [type |-> Undefined]]

InitAction ==
  /\ InitClient
  /\ ipcProtocol = "ipc"
  /\ pluginId = "acme"
  /\ files = {}
  /\ device = [id |-> "d1", properties |-> NoProperties,
               actions |-> [name \in ActionNames |-> ActionMetadata(name)]]
  /\ InitAddon

NextAction ==
  \/ \E actionName \in ActionNames \cup {"missing"}, input \in Inputs,
        performs \in PerformActionResults :
       requestAction("a1", actionName, input, performs)
  \/ \E k \in 1..Len(createdActions), outcome \in {"resolved", "rejected"} :
       performActionSettles(k, outcome)
  \/ \E k \in 1..Len(createdActions) : start(k)
  \/ \E k \in 1..Len(createdActions) : finish(k)

SpecAction == InitAction /\ [][NextAction]_vars

(***************************************************************************)
(* Database, the wrapper around the gateway's sqlite database.  A          *)
(* connection is the object new sqlite3.Database(path, callback) returns:  *)
(* it is "opening" until the library calls the callback, then "open" or    *)
(* "failed"; promise is the state of the promise open() returned for it.   *)
(* The answers of the library to conn.get and conn.run are left out.       *)
(***************************************************************************)
\* open()
open ==
  /\ IF database.conn # Null
     THEN /\ last' = Call("open", 0, "", FALSE, <<Op("resolve", 0, "")>>)
          /\ UNCHANGED <<database, connections>>
     ELSE IF database.path = Undefined
     THEN /\ last' = Call("open", 0, "", FALSE,
                          <<Op("reject", 0, "Database path unknown")>>)
          /\ UNCHANGED <<database, connections>>
     ELSE LET k == Len(connections) + 1
          IN /\ k <= MaxConnections
             /\ connections' = Append(connections,
                                      [path |-> database.path, state |-> "opening",
                                       closed |-> FALSE, promise |-> "pending"])
             /\ database' = [database EXCEPT !.conn = k]
             /\ last' = Call("open", 0, "", FALSE,
                             <<Op("new sqlite3.Database", k, database.path)>>)
  /\ UNCHANGED <<clientVars, sockets, socketId, boundAddrs, connectedAddrs, files,
                 device, adapter, createdActions>>

\* The callback open() gave to connection k, called by the library with err
openCallback(k, err) ==
  /\ connections[k].state = "opening"
  /\ IF err
     THEN /\ connections' = [connections EXCEPT ![k].state = "failed",
                                                ![k].promise = "rejected"]
          /\ last' = Call("open callback", 0, "", FALSE, <<Op("reject", k, "err")>>)
     ELSE /\ connections' = [connections EXCEPT ![k].state = "open",
                                                ![k].promise = "resolved"]
          /\ last' = Call("open callback", 0, "", FALSE,
                          <<Op("configure", k, "busyTimeout"), Op("resolve", k, "")>>)
  /\ UNCHANGED <<clientVars, sockets, socketId, boundAddrs, connectedAddrs, files,
                 device, adapter, createdActions, database>>

\* Database.close()
closeDatabase ==
  /\ IF database.conn # Null
     THEN /\ connections' = [connections EXCEPT ![database.conn].closed = TRUE]
          /\ database' = [database EXCEPT !.conn = Null]
          /\ last' = Call("Database.close", 0, "", FALSE,
                          <<Op("close", database.conn, "")>>)
     ELSE /\ last' = Call("Database.close", 0, "", FALSE, <<>>)
          /\ UNCHANGED <<database, connections>>
  /\ UNCHANGED <<clientVars, sockets, socketId, boundAddrs, connectedAddrs, files,
                 device, adapter, createdActions>>

\* loadConfig()
loadConfig ==
  /\ last' = Call("loadConfig", 0, "", FALSE,
                  IF database.conn = Null
                  THEN <<Op("reject", 0, "Database not open")>>
                  ELSE <<Op("get", database.conn,
                            connections[database.conn].state)>>)
  /\ UNCHANGED <<clientVars, sockets, socketId, boundAddrs, connectedAddrs, files,
                 device, adapter, createdActions, database, connections>>

\* saveConfig(config)
saveConfig ==
  /\ last' = Call("saveConfig", 0, "", FALSE,
                  IF database.conn = Null THEN <<>>
                  ELSE <<Op("run", database.conn,
                            connections[database.conn].state)>>)
  /\ UNCHANGED <<clientVars, sockets, socketId, boundAddrs, connectedAddrs, files,
                 device, adapter, createdActions, database, connections>>

\* The add-on makes its Database with or without a path, in a filesystem
\* where any of the places looked in may exist.
DatabasePaths == {Undefined, "/data/db.sqlite3"}

InitDatabase ==
  /\ InitClient
  /\ ipcProtocol = "ipc"
  /\ pluginId = "acme"
  /\ files \in SUBSET {DB_PATHS[n] : n \in 1..Len(DB_PATHS)}
  /\ device = [id |-> "d1", properties |-> NoProperties, actions |-> NoActions]
  /\ adapter = [id |-> "adapter1", devices |-> {}]
  /\ createdActions = <<>>
  /\ \E path \in DatabasePaths : database = Database(PackageName, path, files)
  /\ connections = <<>>

NextDatabase ==
  \/ open
  \/ \E k \in 1..Len(connections), err \in BOOLEAN : openCallback(k, err)
  \/ closeDatabase
  \/ loadConfig
  \/ saveConfig

SpecDatabase == InitDatabase /\ [][NextDatabase]_vars

(***************************************************************************)
(* Deferred objects made and settled by other code of the add-on.          *)
(***************************************************************************)
newDeferred ==
  /\ Cardinality({d \in 1..Len(deferreds) : deferreds[d].owner = "user"}) < MaxUserDeferreds
  /\ deferreds' = Append(deferreds, Deferred(Len(deferreds) + 1, "user"))
  /\ last' = Call("new Deferred", 0, "", FALSE,
                  <<Op("new Deferred", Len(deferreds) + 1, "")>>)
  /\ UNCHANGED <<adapter, createdActions, files, database, connections, device, ipcProtocol, pluginId, sockets, socketId, boundAddrs,
                 connectedAddrs, deferredReply, gatewayVersion, userProfile,
                 addonManager, pluginIpcBaseAddr, pluginIpcSocket, managerIpcSocket,
                 unexpectedLogged>>

resolve(d, arg) ==
  /\ deferreds[d].owner = "user"
  /\ deferreds' = [deferreds EXCEPT ![d] = Resolved(@, arg)]
  /\ last' = Call("resolve", 0, "", FALSE, <<Op("resolve", d, "")>>)
  /\ UNCHANGED <<adapter, createdActions, files, database, connections, device, ipcProtocol, pluginId, sockets, socketId, boundAddrs,
                 connectedAddrs, deferredReply, gatewayVersion, userProfile,
                 addonManager, pluginIpcBaseAddr, pluginIpcSocket, managerIpcSocket,
                 unexpectedLogged>>

reject(d, arg) ==
  /\ deferreds[d].owner = "user"
  /\ deferreds' = [deferreds EXCEPT ![d] = Rejected(@, arg)]
  /\ last' = Call("reject", 0, "", FALSE, <<Op("reject", d, "")>>)
  /\ UNCHANGED <<adapter, createdActions, files, database, connections, device, ipcProtocol, pluginId, sockets, socketId, boundAddrs,
                 connectedAddrs, deferredReply, gatewayVersion, userProfile,
                 addonManager, pluginIpcBaseAddr, pluginIpcSocket, managerIpcSocket,
                 unexpectedLogged>>

SettleArgs == {1, 2}

Next ==
  \/ register
  \/ \E i \in 1..Len(sockets), buf \in Frames : onData(i, buf)
  \/ CanSend(MaxSent) /\ sendNotification(PROPERTY_CHANGED, EmptyData)
  \/ unload

Spec == Init /\ [][Next]_vars

\* The client sending notifications of two kinds over its session.
NotificationTypes == {PROPERTY_CHANGED, ACTION_STATUS}

NextNotify ==
  \/ register
  \/ \E i \in 1..Len(sockets) : onData(i, TxtResponseA)
  \/ \E methodType \in NotificationTypes :
       CanSend(MaxNotifications) /\ sendNotification(methodType, EmptyData)
  \/ unload

SpecNotify == Init /\ [][NextNotify]_vars

\* The handshake next to Deferred objects that other code makes and settles.
DeferredFrames == {TxtResponseA, TxtUnload}

NextDeferred ==
  \/ register
  \/ \E i \in 1..Len(sockets), buf \in DeferredFrames : onData(i, buf)
  \/ newDeferred
  \/ \E d \in 1..Len(deferreds), arg \in SettleArgs : resolve(d, arg)
  \/ \E d \in 1..Len(deferreds), arg \in SettleArgs : reject(d, arg)

SpecDeferred == Init /\ [][NextDeferred]_vars

(***************************************************************************)
(* Properties.                                                             *)
(***************************************************************************)
ClientDeferreds == {d \in 1..Len(deferreds) : deferreds[d].owner = "client"}

HasOp(ops, op) == \E k \in 1..Len(ops) : ops[k].op = op

CountOp(ops, op) == Cardinality({k \in 1..Len(ops) : ops[k].op = op})

\* The address of a socket made for baseAddr, written out.
AddrOf(protocol, baseAddr) ==
  IF protocol = "ipc" THEN <<"ipc", "://", "/tmp/", baseAddr>>
  ELSE <<"inproc", "://", "app", "-", baseAddr>>

\* The frame of the last onData call parsed as JSON and failed validation.
LastFrameInvalid ==
  /\ last.call = "onData"
  /\ last.buf \in JsonTexts
  /\ ~Validate(JSONValue(last.buf))

\* C1: single-flight registration (for a protocol IpcSocket accepts, so that
\* register() gets as far as sending).  While a registration awaits its
\* response there is exactly one pending future, one rendezvous socket per
\* future and exactly one request sent on the current one; a register() call
\* made meanwhile creates no socket, no future and sends nothing; a client's
\* future leaves the pending state only by the one resolve call of the onData
\* step that handles the response, and stays as it is afterwards.
C1_SingleFlight ==
  /\ [](Supported(ipcProtocol) /\ deferredReply # Null =>
          /\ managerIpcSocket # Null
          /\ Len(sockets[managerIpcSocket].sent) = 1
          /\ JSONValue(sockets[managerIpcSocket].sent[1]).messageType
               = PLUGIN_REGISTER_REQUEST
          /\ Cardinality({i \in 1..Len(sockets) : sockets[i].socketType = "req"})
               = Cardinality(ClientDeferreds)
          /\ {d \in ClientDeferreds : deferreds[d].state = "pending"}
               = {deferredReply})
  /\ [][deferredReply # Null /\ last'.call = "register" =>
          UNCHANGED <<sockets, socketId, deferreds, deferredReply, boundAddrs,
                      connectedAddrs, managerIpcSocket, pluginIpcSocket>>]_vars
  /\ [][\A d \in ClientDeferreds :
          /\ (deferreds[d].state = "pending" /\ deferreds'[d].state # "pending") =>
               /\ deferreds'[d].state = "resolved"
               /\ last'.call = "onData"
               /\ CountOp(last'.ops, "resolve") = 1
          /\ deferreds[d].state # "pending" => deferreds'[d] = deferreds[d]]_vars

C1_Witness ==
  /\ last.call = "register"
  /\ last.pending # Null
  /\ Supported(ipcProtocol)
  /\ managerIpcSocket # Null
  /\ deferredReply = last.pending

\* C2: the inbound callback is invoked only for messages that passed
\* validation: an onData call on a frame that parses but fails validation
\* performs no onMsg call.
C2_OnMsgOnlyForValid == LastFrameInvalid => ~HasOp(last.ops, "onMsg")

\* C3: a frame that is not JSON is logged and dropped: onData makes no onMsg
\* call, does not throw, and changes neither the sockets' flags nor the
\* address registries (nor anything of the handshake).
C3_MalformedDropped ==
  /\ [](last.call = "onData" /\ last.buf \notin JsonTexts =>
          /\ ~HasOp(last.ops, "onMsg")
          /\ ~last.threw
          /\ last.ops = <<[op |-> "error", n |-> last.sock,
                           arg |-> "Error parsing message as JSON"]>>)
  /\ [][last'.call = "onData" /\ last'.buf \notin JsonTexts =>
          UNCHANGED <<sockets, boundAddrs, connectedAddrs, deferreds, deferredReply,
                      pluginIpcSocket, managerIpcSocket>>]_vars

C3_Witness ==
  /\ last.call = "onData"
  /\ last.buf = TxtNotJson
  /\ sockets[last.sock].connected

\* C4: a message that fails validation never raises out of onData.
C4_InvalidNeverRaises == LastFrameInvalid => ~last.threw

C6_RegisteredIsTerminal ==
  [][(\E d \in ClientDeferreds : deferreds[d].state = "resolved") =>
       /\ Len(sockets') = Len(sockets)
       /\ Len(deferreds') = Len(deferreds)
       /\ \A i \in 1..Len(sockets) :
            sockets[i].socketType = "req" => sockets'[i].sent = sockets[i].sent]_vars

\* C7: while a registration is pending, a rendezvous message that is not a
\* registration response changes nothing: the future stays pending, no socket
\* is constructed, gatewayVersion and userProfile keep their values; if the
\* message is an object, the call does not throw and ends by logging
\* 'Unexpected registration reply'.
C7_UnexpectedIgnored ==
  [][(/\ deferredReply # Null
      /\ last'.call = "onData"
      /\ sockets[last'.sock].onMsg = Null
      /\ last'.buf \in JsonTexts
      /\ JSONValue(last'.buf).messageType # PLUGIN_REGISTER_RESPONSE) =>
       /\ UNCHANGED <<sockets, socketId, boundAddrs, connectedAddrs, deferreds,
                      deferredReply, gatewayVersion, userProfile, addonManager,
                      pluginIpcBaseAddr, pluginIpcSocket, managerIpcSocket>>
       /\ JSONValue(last'.buf).kind = "object" =>
            /\ ~last'.threw
            /\ last'.ops[Len(last'.ops)] =
                 [op |-> "error", n |-> 0, arg |-> "Unexpected registration reply"]]_vars

C7_Witness ==
  /\ last.call = "onData"
  /\ last.buf = TxtUnload
  /\ last.pending # Null
  /\ sockets[last.sock].onMsg = Null
  /\ deferredReply = last.pending
  /\ deferreds[deferredReply].state = "pending"

\* C8 as claimed: Failed is terminal: a future for which an unexpected
\* message was received while it was awaited is never resolved.
C8_FailedIsTerminal == \A d \in unexpectedLogged : deferreds[d].state = "pending"

\* C8 as amended: an unexpected message leaves the client awaiting the
\* response: the future it was logged for stays the pending one until it is
\* resolved, and a registration response (with its data) handled while it is
\* pending resolves it.
C8_LateResponseResolves ==
  /\ [](\A d \in unexpectedLogged :
          deferreds[d].state = "pending" => deferredReply = d)
  /\ [][(/\ deferredReply \in unexpectedLogged
         /\ last'.call = "onData"
         /\ sockets[last'.sock].onMsg = Null
         /\ last'.buf \in {TxtResponseA, TxtResponseB}) =>
          /\ deferreds'[deferredReply].state = "resolved"
          /\ deferredReply' = Null
          /\ HasOp(last'.ops, "resolve")]_vars

C8_Witness ==
  /\ \E d \in unexpectedLogged : deferreds[d].state = "resolved"
  /\ last.call = "onData"
  /\ last.buf \in {TxtResponseA, TxtResponseB}

\* C9: a Deferred is settled at most once: once it is resolved or rejected no
\* step changes its state or its value, whatever resolve and reject calls
\* follow; and the future the client is waiting on is always still pending,
\* so the client's resolve call is the first settle call on it.
C9_SettledAtMostOnce ==
  /\ [][\A d \in 1..Len(deferreds) :
          deferreds[d].state # "pending" => deferreds'[d] = deferreds[d]]_vars
  /\ [](deferredReply # Null => deferreds[deferredReply].state = "pending")

C9_Witness ==
  /\ last.call = "resolve"
  /\ deferreds[last.ops[1].n].state = "rejected"

\* C10: register() from Idle with a protocol IpcSocket accepts constructs one
\* req socket at gateway.addonManager, connects it and then sends one
\* PLUGIN_REGISTER_REQUEST carrying the client's pluginId, in that order.
C10_RegisterConnectsThenSends ==
  (last.call = "register" /\ last.pending = Null /\ Supported(ipcProtocol)) =>
    LET i == last.sock
    IN /\ ~last.threw
       /\ i = Len(sockets)
       /\ managerIpcSocket = i
       /\ sockets[i].socketType = "req"
       /\ sockets[i].connected
       /\ sockets[i].ipcAddr = AddrOf(ipcProtocol, "gateway.addonManager")
       /\ Len(sockets[i].sent) = 1
       /\ JSONValue(sockets[i].sent[1]) =
            [kind |-> "object", messageType |-> "PLUGIN_REGISTER_REQUEST",
             data |-> [EmptyData EXCEPT !.pluginId = pluginId]]
       /\ Len(last.ops) = 4
       /\ SubSeq(last.ops, 2, 4) =
            <<[op |-> "new IpcSocket", n |-> i, arg |-> "req"],
              [op |-> "connect", n |-> i, arg |-> ""],
              [op |-> "send", n |-> i, arg |-> sockets[i].sent[1]]>>

C10_Witness ==
  /\ last.call = "register"
  /\ last.pending = Null
  /\ ~last.threw
  /\ pluginId = "zigbee"
  /\ sockets[last.sock].sent = <<TxtRequestZigbee>>


HasError(ops, text) == \E k \in 1..Len(ops) : ops[k].op = "error" /\ ops[k].arg = text

\* Pair sockets other than i that share i's address.
PairPeers(i) ==
  {j \in 1..Len(sockets) : /\ j # i
                           /\ sockets[j].socketType = "pair"
                           /\ sockets[j].ipcAddr = sockets[i].ipcAddr}

\* C11: the first close() of an IpcSocket, whatever bind() and connect() calls
\* came before, leaves both its flags false and, for a pair socket, takes its
\* address out of each registry the socket had entered it in.
C11_CloseResets ==
  [][(last'.call = "close" /\ ~sockets[last'.sock].closed) =>
       LET i == last'.sock IN
         /\ ~sockets'[i].bound
         /\ ~sockets'[i].connected
         /\ (sockets[i].socketType = "pair" /\ sockets[i].bound
               => sockets[i].ipcAddr \notin boundAddrs')
         /\ (sockets[i].socketType = "pair" /\ sockets[i].connected
               => sockets[i].ipcAddr \notin connectedAddrs')]_vars

\* C12: bind() or connect() on a socket that is already bound or connected
\* logs the usage error, does not throw, makes the transport call and sets
\* its flag.
C12_UsageErrorProceeds ==
  [][(last'.call \in {"bind", "connect"}
        /\ (sockets[last'.sock].bound \/ sockets[last'.sock].connected)) =>
       LET i == last'.sock IN
         /\ sockets[i].bound => HasError(last'.ops, "socket already bound")
         /\ sockets[i].connected => HasError(last'.ops, "socket already connected")
         /\ ~last'.threw
         /\ last'.ops[Len(last'.ops)].op = last'.call
         /\ last'.call = "bind" => sockets'[i].bound
         /\ last'.call = "connect" => sockets'[i].connected]_vars

C12_Witness ==
  /\ last.call = "bind"
  /\ HasError(last.ops, "socket already connected")
  /\ HasOp(last.ops, "bind")
  /\ sockets[last.sock].bound
  /\ sockets[last.sock].connected

\* C13: no two pair sockets of one address are bound at the same time, and no
\* two are connected at the same time.
C13_AddressUnique ==
  \A i \in 1..Len(sockets) : \A j \in PairPeers(i) :
    sockets[i].socketType = "pair" =>
      /\ ~(sockets[i].bound /\ sockets[j].bound)
      /\ ~(sockets[i].connected /\ sockets[j].connected)

\* C14: every bind() reaches the transport and does not throw; a pair socket
\* binding an address that another pair socket is bound to (none of that
\* address having been closed) logs 'address already bound'.
C14_SecondBindLogsConflict ==
  [][last'.call = "bind" =>
       LET i == last'.sock IN
         /\ ~last'.threw
         /\ last'.ops[Len(last'.ops)] = Op("bind", i, "")
         /\ (/\ sockets[i].socketType = "pair"
             /\ \E j \in PairPeers(i) : sockets[j].bound
             /\ \A j \in PairPeers(i) : ~sockets[j].closed)
              => HasError(last'.ops, "address already bound")]_vars

C14_Witness ==
  /\ last.call = "bind"
  /\ ~last.threw
  /\ HasError(last.ops, "address already bound")
  /\ ~HasError(last.ops, "socket already bound")
  /\ \E j \in PairPeers(last.sock) : sockets[j].bound /\ sockets[last.sock].bound

\* C15: the constructor throws for a protocol other than 'ipc' and 'inproc'
\* and hands out no object; every IpcSocket there is has one of the two.
C15_UnsupportedProtocolThrows ==
  /\ [](\A i \in 1..Len(sockets) : sockets[i].protocol \in {"ipc", "inproc"})
  /\ [][(last'.call = "new IpcSocket" /\ ipcProtocol \notin {"ipc", "inproc"}) =>
          last'.threw /\ sockets' = sockets]_vars

C15_Witness ==
  /\ last.call = "new IpcSocket"
  /\ last.threw
  /\ ipcProtocol = "tcp"
  /\ socketId = 1
  /\ sockets = <<>>

\* C16: bind() of an ipc socket whose file exists unlinks the file before the
\* transport's bind; bind() of an inproc socket unlinks nothing and leaves the
\* filesystem as it was.
C16_UnlinkBeforeBind ==
  [][last'.call = "bind" =>
       LET i == last'.sock
           ops == last'.ops IN
         /\ (sockets[i].protocol = "ipc" /\ sockets[i].ipcFile \in files) =>
              \E k \in 1..Len(ops) : \E l \in (k + 1)..Len(ops) :
                ops[k] = Op("unlink", i, "") /\ ops[l] = Op("bind", i, "")
         /\ sockets[i].protocol = "inproc" =>
              ~HasOp(ops, "unlink") /\ files' = files]_vars

C16_Witness ==
  /\ last.call = "bind"
  /\ sockets[last.sock].protocol = "ipc"
  /\ HasOp(last.ops, "unlink")
  /\ last.ops[Len(last.ops)].op = "bind"


\* C17: every sendJson the client issues, in register() or sendNotification(),
\* goes to a socket whose connected flag is true, and sendNotification()
\* without a session socket sends nothing.
C17_SendsOnlyWhenConnected ==
  last.call \in {"register", "sendNotification"} =>
    /\ \A k \in 1..Len(last.ops) :
         last.ops[k].op = "send" => sockets[last.ops[k].n].connected
    /\ (last.call = "sendNotification" /\ pluginIpcSocket = Null)
         => ~HasOp(last.ops, "send")

\* C18: unload() never calls close() on a session socket that a close() was
\* called on before.
C18_SessionClosedOnce ==
  [][last'.call = "unload" =>
       \A k \in 1..Len(last'.ops) :
         (last'.ops[k].op = "close" /\ sockets[last'.ops[k].n].socketType = "pair")
           => ~sockets[last'.ops[k].n].closed]_vars


\* The value handed to the last setProperty call.
LastValue(call) == [t |-> call.ops[1].arg, n |-> call.ops[1].n]

Resolves(call) == call.call = "setProperty" /\ HasOp(call.ops, "resolve")

\* C19: a setProperty(p, v) that the property accepts leaves the property's
\* value equal to v and sends a property-changed notification to the manager.
C19_SetPropertySetsAndNotifies ==
  [][Resolves(last') =>
       /\ device'.properties[last'.buf].value = LastValue(last')
       /\ HasOp(last'.ops, "sendPropertyChangedNotification")]_vars

\* C19 (amended): a setProperty(p, v) that the property accepts leaves the
\* property's value equal to v, converted to a boolean for a property of type
\* 'boolean', and sends the property-changed notification exactly when the
\* stored value differs from the one before; the promise resolves to the
\* stored value.
C19_SetPropertyNotifiesOnChange ==
  [][Resolves(last') =>
       LET p == last'.buf
           v == LastValue(last')
           stored == IF device.properties[p].type = "boolean"
                     THEN JSBoolean(v.t # "undefined" /\ v.n # 0) ELSE v
       IN /\ device'.properties[p].value = stored
          /\ CountOp(last'.ops, "sendPropertyChangedNotification")
               = (IF stored # device.properties[p].value THEN 1 ELSE 0)
          /\ last'.ops[Len(last'.ops)] = Op("resolve", stored.n, stored.t)]_vars

C19_Witness ==
  /\ Resolves(last)
  /\ last.buf = "on"
  /\ LastValue(last) = JSBoolean(TRUE)
  /\ device.properties["on"].value = JSBoolean(TRUE)
  /\ ~HasOp(last.ops, "sendPropertyChangedNotification")


\* C20: a sendNotification() call hands exactly one text to the session
\* socket, behind the texts handed over before, touches no other socket and
\* leaves no reply awaited; without a session socket it sends nothing.  No
\* other step changes what a session socket has been handed.
C20_OneSendInOrder ==
  [][/\ last'.call = "sendNotification" =>
          /\ deferredReply' = deferredReply
          /\ deferreds' = deferreds
          /\ IF pluginIpcSocket = Null
             THEN sockets' = sockets /\ last'.ops = <<>>
             ELSE /\ Len(last'.ops) = 1
                  /\ last'.ops[1].op = "send"
                  /\ last'.ops[1].n = pluginIpcSocket
                  /\ sockets' = [sockets EXCEPT ![pluginIpcSocket].sent =
                                   Append(@, last'.ops[1].arg)]
     /\ last'.call # "sendNotification" =>
          \A i \in 1..Len(sockets) :
            sockets[i].socketType = "pair" => sockets'[i].sent = sockets[i].sent]_vars

C20_Witness ==
  /\ last.call = "sendNotification"
  /\ pluginIpcSocket # Null
  /\ \E id \in PluginIds :
       sockets[pluginIpcSocket].sent =
         <<JSONStringify(Msg(PROPERTY_CHANGED, [EmptyData EXCEPT !.pluginId = id])),
           JSONStringify(Msg(ACTION_STATUS, [EmptyData EXCEPT !.pluginId = id]))>>


C25_NotifiesExactlyOnChange ==
  [][last'.call = "setCachedValueAndNotify" =>
       LET p == last'.buf
           v == LastValue(last')
           before == device.properties[p].value
           after == device'.properties[p].value
       IN /\ after = (IF device.properties[p].type = "boolean"
                        THEN JSBoolean(v.t # "undefined" /\ v.n # 0) ELSE v)
          /\ CountOp(last'.ops, "sendPropertyChangedNotification")
               = (IF after # before THEN 1 ELSE 0)
          /\ last'.ops[Len(last'.ops)]
               = Op("return", IF after # before THEN 1 ELSE 0, "boolean")]_vars

C25_Witness ==
  /\ last.call = "setCachedValueAndNotify"
  /\ last.buf = "level"
  /\ LastValue(last) = JSNumber(1)
  /\ device.properties["level"].value = JSNumber(1)
  /\ last.ops[Len(last.ops)] = Op("return", 0, "boolean")
  /\ ~HasOp(last.ops, "sendPropertyChangedNotification")

\* C26: a setProperty call whose promise is rejected, by setValue or for a
\* property the device does not have, leaves every property as it was and
\* sends no property-changed notification.
C26_RejectChangesNothing ==
  [][(last'.call = "setProperty" /\ HasOp(last'.ops, "reject")) =>
       /\ device' = device
       /\ ~HasOp(last'.ops, "sendPropertyChangedNotification")
       /\ ~HasOp(last'.ops, "resolve")]_vars

C26_Witness ==
  /\ last.call = "setProperty"
  /\ last.buf = "level"
  /\ last.ops[Len(last.ops)] = Op("reject", 0, "Value less than minimum")
  /\ device.properties["level"].value = JSNumber(1)
  /\ LastValue(last) = JSNumber(0)

\* C27: setProperty with a number below the minimum of the property's
\* description, or above its maximum, is rejected, whatever the limit is.
C27_RangeEnforced ==
  [][(last'.call = "setProperty" /\ last'.buf \in DOMAIN device.properties
        /\ LastValue(last').t = "number") =>
       LET descr == device.properties[last'.buf].legacyPropertyDescr
           v == LastValue(last')
       IN /\ (descr.minimum.t = "number" /\ v.n < descr.minimum.n)
               => HasOp(last'.ops, "reject")
          /\ (descr.maximum.t = "number" /\ v.n > descr.maximum.n)
               => HasOp(last'.ops, "reject")]_vars


\* The input handed to the last requestAction call, and whether the device
\* has the action and takes the input.
LastInput(call) == [t |-> call.ops[1].arg, n |-> call.ops[1].n]

KnownAndValid(call) ==
  /\ call.buf \in DOMAIN device.actions
  /\ device.actions[call.buf].hasInput => LastInput(call).t = "number"

\* C22: requestAction for an action the device has, with valid input, whose
\* performAction returns a promise, has resolved its own promise when it
\* returns, also while performAction's promise is pending; when that promise
\* is rejected, at once or later, the rejection is logged and the promise of
\* requestAction stays resolved.
C22_RequestActionDoesNotWait ==
  [][/\ (last'.call = "requestAction" /\ KnownAndValid(last')
           /\ ~HasOp(last'.ops, "throw")) =>
          /\ Len(createdActions') = Len(createdActions) + 1
          /\ createdActions'[Len(createdActions')].requestAction = "resolved"
          /\ PromiseState(last'.ops) = "resolved"
          /\ createdActions'[Len(createdActions')].performAction = "rejected"
               => last'.ops[Len(last'.ops)].op = "log"
     /\ last'.call = "performAction settles" =>
          /\ ~last'.threw
          /\ \A k \in 1..Len(createdActions) :
               /\ createdActions'[k].requestAction = createdActions[k].requestAction
               /\ createdActions'[k].performAction # createdActions[k].performAction
                    => /\ createdActions[k].performAction = "pending"
                       /\ createdActions'[k].performAction = "rejected"
                            => last'.ops = <<Op("log", k, "err")>>]_vars

C22_Witness ==
  /\ last.call = "performAction settles"
  /\ \E k \in 1..Len(createdActions) :
       /\ createdActions[k].performAction = "rejected"
       /\ createdActions[k].requestAction = "resolved"
       /\ last.ops = <<Op("log", k, "err")>>

\* C28: a requestAction whose promise is rejected, the action being unknown
\* or the input invalid, makes no Action and does not call performAction.
C28_RejectedMakesNoAction ==
  [][(last'.call = "requestAction" /\ ~KnownAndValid(last')
        /\ PromiseState(last'.ops) = "rejected") =>
       /\ createdActions' = createdActions
       /\ ~HasOp(last'.ops, "new Action")
       /\ ~HasOp(last'.ops, "performAction")]_vars

\* C30: an Action is made with status 'created'; start() leaves it 'pending'
\* and finish() leaves it 'completed' with timeCompleted set; each makes one
\* action-status notification, which carries the new status.
C30_StatusThenNotify ==
  /\ [][last'.call = "requestAction" =>
          \A k \in (Len(createdActions) + 1)..Len(createdActions') :
            /\ createdActions'[k].action.status = "created"
            /\ createdActions'[k].action.timeCompleted = Undefined]_vars
  /\ [][last'.call \in {"start", "finish"} =>
          /\ Len(last'.ops) = 1
          /\ last'.ops[1].op = "sendActionStatusNotification"
          /\ LET k == last'.ops[1].n
                 status == IF last'.call = "start" THEN "pending" ELSE "completed"
             IN /\ createdActions'[k].action.status = status
                /\ last'.ops[1].arg = status
                /\ last'.call = "finish"
                     => createdActions'[k].action.timeCompleted = Timestamp
                /\ last'.call = "start"
                     => createdActions'[k].action.timeCompleted
                          = createdActions[k].action.timeCompleted
                /\ \A j \in 1..Len(createdActions) :
                     j # k => createdActions'[j] = createdActions[j]]_vars

C30_Witness ==
  /\ last.call = "finish"
  /\ last.ops = <<Op("sendActionStatusNotification", 1, "completed")>>
  /\ createdActions[1].action.status = "completed"
  /\ createdActions[1].action.timeCompleted = Timestamp


\* C23: a set-property request for a device id the adapter has no device
\* for, or for a property name the device does not have, throws nothing,
\* leaves the adapter's devices and every property as they were, and sends
\* no notification.
C23_UnknownTargetDropped ==
  [][(last'.call = "onSetProperty"
        /\ (\/ last'.buf \notin adapter.devices
            \/ last'.ops[1].arg \notin DOMAIN DeviceOf(last'.buf).properties)) =>
       /\ ~last'.threw
       /\ ~HasOp(last'.ops, "throw")
       /\ adapter' = adapter
       /\ device' = device
       /\ ~HasOp(last'.ops, "sendPropertyChangedNotification")
       /\ ~HasOp(last'.ops, "send")
       /\ HasOp(last'.ops, "log")]_vars

C23_Witness ==
  /\ last.call = "onSetProperty"
  /\ last.buf = "ghost"
  /\ last.ops[1].arg = "on"
  /\ "d1" \in adapter.devices
  /\ device.properties["on"].value = JSBoolean(TRUE)
  /\ last.ops[1].n = 0

\* C24: unload() closes the session socket if there is one, then the
\* rendezvous socket if there is one, and after that emits 'unloaded', once;
\* with neither socket it only emits 'unloaded'.
C24_UnloadClosesThenEmits ==
  [][last'.call = "unload" =>
       LET ops == last'.ops
           closes == SelectSeq(ops, LAMBDA o : o.op = "close")
           expected == (IF pluginIpcSocket # Null THEN <<pluginIpcSocket>> ELSE <<>>)
                       \o (IF managerIpcSocket # Null THEN <<managerIpcSocket>> ELSE <<>>)
       IN /\ ops[Len(ops)] = Op("emit", 0, "unloaded")
          /\ CountOp(ops, "emit") = 1
          /\ Len(closes) = Len(expected)
          /\ \A k \in 1..Len(closes) : closes[k].n = expected[k]
          /\ \A k \in 1..Len(expected) : sockets'[expected[k]].closed
          /\ ~last'.threw]_vars

C24_Witness ==
  /\ last.call = "unload"
  /\ pluginIpcSocket # Null
  /\ managerIpcSocket # Null
  /\ last.ops = <<Op("close", pluginIpcSocket, ""), Op("close", managerIpcSocket, ""),
                  Op("emit", 0, "unloaded")>>

\* C29: handleDeviceAdded puts the device's id in the adapter's devices and
\* handleDeviceRemoved, also when called by removeThing, takes it out; each
\* makes one call to the manager, at a time when the devices are already
\* updated; no other operation changes the devices.
C29_DeviceMapFollowsCalls ==
  [][LET id == last'.buf
         ops == last'.ops
     IN /\ last'.call = "handleDeviceAdded" =>
             /\ adapter'.devices = adapter.devices \cup {id}
             /\ ops = <<Op("manager.handleDeviceAdded", 1, id)>>
        /\ last'.call \in {"handleDeviceRemoved", "removeThing"} =>
             /\ adapter'.devices = adapter.devices \ {id}
             /\ ops[Len(ops)] = Op("manager.handleDeviceRemoved", 0, id)
             /\ CountOp(ops, "manager.handleDeviceRemoved") = 1
        /\ last'.call \notin {"handleDeviceAdded", "handleDeviceRemoved", "removeThing"}
             => adapter' = adapter]_vars

C29_Witness ==
  /\ last.call = "removeThing"
  /\ last.buf = "d1"
  /\ adapter.devices = {"d2"}
  /\ last.ops[Len(last.ops)] = Op("manager.handleDeviceRemoved", 0, "d1")

\* C31: after any sequence of start() and finish() calls on an Action,
\* timeCompleted is set exactly when the status is 'completed'; a completed
\* Action does not go back to 'pending'.
C31_CompletedIffTimeCompleted ==
  \A k \in 1..Len(createdActions) :
    (createdActions[k].action.timeCompleted # Undefined)
      <=> (createdActions[k].action.status = "completed")

\* C32: after any sequence of bind, connect and close calls, an address is in
\* boundAddrs exactly when some pair socket that has not been closed is bound
\* to it, and in connectedAddrs exactly when some pair socket that has not
\* been closed is connected to it; a call on a req socket changes neither
\* registry.
C32_RegistriesMirrorSockets ==
  /\ [](/\ boundAddrs =
             {sockets[i].ipcAddr : i \in {j \in 1..Len(sockets) :
                 /\ sockets[j].socketType = "pair"
                 /\ ~sockets[j].closed
                 /\ sockets[j].bound}}
        /\ connectedAddrs =
             {sockets[i].ipcAddr : i \in {j \in 1..Len(sockets) :
                 /\ sockets[j].socketType = "pair"
                 /\ ~sockets[j].closed
                 /\ sockets[j].connected}})
  /\ [][(/\ last'.call \in {"bind", "connect", "close"}
         /\ sockets[last'.sock].socketType = "req")
          => UNCHANGED <<boundAddrs, connectedAddrs>>]_vars

\* C33: a message that arrives on the rendezvous socket while no
\* registration is pending, whatever its type, is logged and dropped: nothing
\* is thrown, no socket is made or connected, no future is settled, and
\* gatewayVersion, userProfile and the router handle stay as they were.
C33_NoPendingDropped ==
  [][(/\ last'.call = "onData"
      /\ sockets[last'.sock].onMsg = Null
      /\ HasOp(last'.ops, "onMsg")
      /\ deferredReply = Null) =>
       /\ ~last'.threw
       /\ last'.ops[Len(last'.ops)] =
            [op |-> "error", n |-> 0, arg |-> "No deferredReply setup"]
       /\ ~HasOp(last'.ops, "new IpcSocket")
       /\ ~HasOp(last'.ops, "connect")
       /\ ~HasOp(last'.ops, "resolve")
       /\ UNCHANGED <<sockets, socketId, boundAddrs, connectedAddrs, deferreds,
                      deferredReply, gatewayVersion, userProfile, addonManager,
                      pluginIpcBaseAddr, pluginIpcSocket, managerIpcSocket,
                      unexpectedLogged>>]_vars

C33_Witness ==
  /\ last.call = "onData"
  /\ last.sock = managerIpcSocket
  /\ last.buf = TxtResponseB
  /\ last.pending = Null
  /\ HasError(last.ops, "No deferredReply setup")
  /\ gatewayVersion = "1.0"
  /\ pluginIpcSocket # Null
  /\ deferreds[1].state = "resolved"

\* C34: a register() call that fails because the IpcSocket constructor
\* throws for an unsupported protocol leaves the client as it was, with no
\* pending registration recorded, so that no later register() call is
\* refused as 'Already waiting for registration reply'.
C34_FailedRegisterLeavesIdle ==
  /\ [][(last'.call = "register" /\ last'.threw) =>
          UNCHANGED <<deferredReply, deferreds, gatewayVersion, userProfile,
                      addonManager, pluginIpcBaseAddr, pluginIpcSocket,
                      managerIpcSocket>>]_vars
  /\ [][(last'.call = "register" /\ ~Supported(ipcProtocol)) =>
          ~HasError(last'.ops, "Already waiting for registration reply")]_vars

\* C35: after unload(), every IpcSocket the client made over its lifetime,
\* across any sequence of register() calls and registration responses, has
\* been closed, and no address the client connected a pair socket to is left
\* in connectedAddrs.
C35_UnloadClosesEverySocket ==
  [][last'.call = "unload" =>
       \A i \in 1..Len(sockets') :
         /\ sockets'[i].closed
         /\ sockets'[i].socketType = "pair"
              => sockets'[i].ipcAddr \notin connectedAddrs']_vars

\* C36: the Database counts as open only after a successful open().  When
\* the promise open() returned has rejected, the connection is not retained:
\* a following loadConfig() rejects with 'Database not open' and a following
\* open() tries to open again instead of resolving at once; and an open()
\* issued while an earlier one is still in progress does not resolve before
\* the connection is open.
C36_OpenOnlyAfterSuccess ==
  /\ [](database.conn # Null => connections[database.conn].state # "failed")
  /\ [][(/\ last.call = "open callback"
         /\ HasOp(last.ops, "reject")
         /\ last.ops[1].n = Len(connections)
         /\ last'.call = "loadConfig") =>
          last'.ops = <<Op("reject", 0, "Database not open")>>]_vars
  /\ [][(/\ last.call = "open callback"
         /\ HasOp(last.ops, "reject")
         /\ last.ops[1].n = Len(connections)
         /\ last'.call = "open") =>
          HasOp(last'.ops, "new sqlite3.Database")]_vars
  /\ [][(/\ last'.call = "open"
         /\ database.conn # Null
         /\ connections[database.conn].state = "opening") =>
          ~HasOp(last'.ops, "resolve")]_vars

====
